---- MODULE Spec2Model ----
(***************************************************************************)
(* Model of .tools/generate_info.py: the class docstring synchronizer     *)
(* (update_class_docstrings), the command docstring auditor                *)
(* (check_command_docstrings), the end user data statement auditor         *)
(* (check_for_end_user_data_statement) and the part of main() that drives  *)
(* them.  Source files are sequences of atoms (tokens and pieces of        *)
(* trivia); parso.parse is modelled by a tokenizer and a parser for the    *)
(* subset of Python the source files of the model use, building trees of   *)
(* the shape parso builds under the grammar of the interpreter that runs   *)
(* the script.                                                             *)
(***************************************************************************)
EXTENDS Naturals, Sequences, FiniteSets, Bags, TLC

(***************************************************************************)
(* Lexical level.  A text is a sequence of atoms; an atom is a token or a  *)
(* piece of trivia (a newline, a run of spaces, a comment).                *)
(***************************************************************************)
NL == "\n"
SP == " "
IND == "    "

IgnoreComment == "# geninfo-ignore: missing-docstring"
OtherComment == "# note"
MarkerName == "__red_end_user_data_statement__"

Spacing == {SP, IND}
CommentAtoms == {IgnoreComment, OtherComment}
Keywords == {"class", "def", "async", "from", "import", "pass", "with", "if", "as"}
Operators == {":", "=", ".", "@", "(", ")", "*", ","}

\* f'"""{new_docstring}"""'
TripleQuoted(t) == "\"\"\"" \o t \o "\"\"\""

\* The manifest texts of the model (short descriptions and docstring overrides).
RepoName == "Repo"
ClassNames == {"Foo", "Bar"}
ShortTexts == {<<"Tracks X.">>, <<"Cog ", "{cog_name}", " of ", "{repo_name}">>}

\* str.format_map(replacements) on a text given as its literal pieces and
\* replacement fields.
RECURSIVE format_map(_, _)
format_map(pieces, replacements) ==
    IF pieces = <<>> THEN ""
    ELSE LET h == Head(pieces)
             s == IF h \in DOMAIN replacements THEN replacements[h] ELSE h
         IN  s \o format_map(Tail(pieces), replacements)

Replacements(class_name) ==
    [k \in {"{repo_name}", "{cog_name}"} |->
        IF k = "{repo_name}" THEN RepoName ELSE class_name]

DocTexts == {format_map(t, Replacements(c)) : t \in ShortTexts, c \in ClassNames}
StringAtoms == {TripleQuoted(d) : d \in DocTexts}
                 \cup {TripleQuoted("Old"), "\"Old\"", "\"stmt\""}
NumberAtoms == {"1"}

TokenType(a) ==
    IF a \in Keywords THEN "keyword"
    ELSE IF a \in Operators THEN "operator"
    ELSE IF a \in StringAtoms THEN "string"
    ELSE IF a \in NumberAtoms THEN "number"
    ELSE "name"

MkLeaf(type, value, prefix) == [type |-> type, value |-> value, prefix |-> prefix]

\* parso's tokenizer: trivia is collected into the prefix of the next token; a
\* newline is a token only when it ends a line that holds a token.
RECURSIVE TokenizeFrom(_, _, _, _, _)
TokenizeFrom(text, k, prefix, lineHasToken, acc) ==
    IF k > Len(text) THEN Append(acc, MkLeaf("endmarker", "", prefix))
    ELSE LET a == text[k] IN
         IF a \in Spacing \cup CommentAtoms
         THEN TokenizeFrom(text, k + 1, Append(prefix, a), lineHasToken, acc)
         ELSE IF a = NL
         THEN IF lineHasToken
              THEN TokenizeFrom(text, k + 1, <<>>, FALSE,
                                Append(acc, MkLeaf("newline", NL, prefix)))
              ELSE TokenizeFrom(text, k + 1, Append(prefix, a), FALSE, acc)
         ELSE TokenizeFrom(text, k + 1, <<>>, TRUE,
                           Append(acc, MkLeaf(TokenType(a), a, prefix)))

Tokenize(text) == TokenizeFrom(text, 1, <<>>, FALSE, <<>>)

\* tree.get_code(): every leaf's prefix followed by its value, in document order.
RECURSIVE get_code(_)
get_code(leaves) ==
    IF leaves = <<>> THEN <<>>
    ELSE LET l == Head(leaves)
         IN  l.prefix \o (IF l.type = "endmarker" THEN <<>> ELSE <<l.value>>)
               \o get_code(Tail(leaves))

\* The indentation of a line, read from the prefix of its first token.
RECURSIVE IndentOf(_)
IndentOf(prefix) ==
    IF prefix = <<>> \/ prefix[Len(prefix)] = NL THEN 0
    ELSE (IF prefix[Len(prefix)] = IND THEN 1 ELSE 0)
           + IndentOf(SubSeq(prefix, 1, Len(prefix) - 1))

(***************************************************************************)
(* Syntax trees.  A node has a type and children; a leaf node has a value  *)
(* and the index of its leaf in the token sequence, where its prefix is    *)
(* kept.  A function or class definition also carries what                 *)
(* get_decorators() finds through its parent.                              *)
(***************************************************************************)
LeafNode(toks, i) ==
    [type |-> toks[i].type, value |-> toks[i].value, leaf |-> i,
     children |-> <<>>, decorators |-> <<>>]

Node(type, children) ==
    [type |-> type, value |-> "", leaf |-> 0,
     children |-> children, decorators |-> <<>>]

LeafNodes(toks, p, q) == [k \in 1..(q + 1 - p) |-> LeafNode(toks, p + k - 1)]

\* The first index at or after p whose leaf has the value v (the end marker
\* when there is none).
RECURSIVE FindValue(_, _, _)
FindValue(toks, p, v) ==
    IF p >= Len(toks) THEN Len(toks)
    ELSE IF toks[p].value = v THEN p
    ELSE FindValue(toks, p + 1, v)

FindNewline(toks, p) == FindValue(toks, p, NL)

\* NAME ('.' NAME)*: a name leaf, or a dotted_name node over all its leaves.
DottedName(toks, p, q) ==
    IF p = q THEN LeafNode(toks, p) ELSE Node("dotted_name", LeafNodes(toks, p, q))

\* The first index at or after p whose leaf is not a '.' operator.
RECURSIVE SkipDots(_, _)
SkipDots(toks, p) ==
    IF p < Len(toks) /\ toks[p].value = "." THEN SkipDots(toks, p + 1) ELSE p

\* import_from: 'from' ('.'* dotted_name | '.'+) 'import' ('*' | import_as_names)
ImportFrom(toks, p, q) ==
    LET d == SkipDots(toks, p + 1)
        i == FindValue(toks, p, "import")
        module == IF d < i THEN <<DottedName(toks, d, i - 1)>> ELSE <<>>
        names == IF i + 1 = q THEN <<LeafNode(toks, q)>>
                 ELSE IF toks[i + 2].value = "as"
                 THEN <<Node("import_as_name", LeafNodes(toks, i + 1, q))>>
                 ELSE <<Node("import_as_names", LeafNodes(toks, i + 1, q))>>
    IN  Node("import_from",
             LeafNodes(toks, p, d - 1) \o module \o <<LeafNode(toks, i)>> \o names)

\* import_name: 'import' dotted_name
ImportName(toks, p, q) ==
    Node("import_name", <<LeafNode(toks, p), DottedName(toks, p + 1, q)>>)

\* The small statement held by the leaves p..q of one line.
SmallStmt(toks, p, q) ==
    IF toks[p].value = "from" THEN ImportFrom(toks, p, q)
    ELSE IF toks[p].value = "import" THEN ImportName(toks, p, q)
    ELSE IF p = q THEN LeafNode(toks, p)
    ELSE IF toks[p + 1].value = "("
    THEN Node("atom_expr", <<LeafNode(toks, p), Node("trailer", LeafNodes(toks, p + 1, q))>>)
    ELSE Node("expr_stmt", LeafNodes(toks, p, q))

\* A parsed statement, or statements, with the index of the leaf after them.
Parsed(node, next) == [node |-> node, next |-> next]
Prepend(node, rest) == [nodes |-> <<node>> \o rest.nodes, next |-> rest.next]
Wrap(type, first, inner) == Parsed(Node(type, <<first, inner.node>>), inner.next)

\* simple_stmt: small_stmt NEWLINE
SimpleStmt(toks, p) ==
    LET n == FindNewline(toks, p)
    IN  Parsed(Node("simple_stmt", <<SmallStmt(toks, p, n - 1), LeafNode(toks, n)>>),
               n + 1)

\* sys.version_info[:2] of the interpreter that runs the script.  parso.parse
\* is called without a version and loads the grammar of that interpreter.
VARIABLE version_info

\* The interpreters of the model: one of each decorator grammar.
Versions == {<<3, 8>>, <<3, 11>>}

\* From Python 3.9 on the grammar has decorator: '@' namedexpr_test NEWLINE.
ExpressionDecorators == version_info[2] >= 9

\* trailer: '.' NAME | '(' ')'
RECURSIVE Trailers(_, _, _)
Trailers(toks, p, q) ==
    IF p > q THEN <<>>
    ELSE <<Node("trailer", LeafNodes(toks, p, p + 1))>> \o Trailers(toks, p + 2, q)

\* namedexpr_test, of a name, attribute references and an empty call:
\* atom_expr: atom trailer*, and the name itself when there is no trailer.
NamedExpr(toks, p, q) ==
    IF p = q THEN LeafNode(toks, p)
    ELSE Node("atom_expr", <<LeafNode(toks, p)>> \o Trailers(toks, p + 1, q))

\* decorator: '@' dotted_name [ '(' ')' ] NEWLINE  (up to Python 3.8)
DottedDecorator(toks, p, n, e) ==
    Parsed(Node("decorator",
                <<LeafNode(toks, p), DottedName(toks, p + 1, e)>>
                  \o LeafNodes(toks, e + 1, n)),
           n + 1)

\* decorator: '@' namedexpr_test NEWLINE  (from Python 3.9 on)
ExpressionDecorator(toks, p, n) ==
    Parsed(Node("decorator",
                <<LeafNode(toks, p), NamedExpr(toks, p + 1, n - 1), LeafNode(toks, n)>>),
           n + 1)

DecoratorUpTo(toks, p, n) ==
    IF ExpressionDecorators THEN ExpressionDecorator(toks, p, n)
    ELSE DottedDecorator(toks, p, n, IF toks[n - 1].value = ")" THEN n - 3 ELSE n - 1)

Decorator(toks, p) == DecoratorUpTo(toks, p, FindNewline(toks, p))

RECURSIVE Decorators(_, _)
DecoratorsAfter(toks, d) == Prepend(d.node, Decorators(toks, d.next))

\* decorators: decorator+
Decorators(toks, p) ==
    IF toks[p].value # "@" THEN [nodes |-> <<>>, next |-> p]
    ELSE DecoratorsAfter(toks, Decorator(toks, p))

RECURSIVE ParseBlock(_, _, _)
RECURSIVE ParseStmt(_, _)

BlockAfter(toks, s, ind) == Prepend(s.node, ParseBlock(toks, s.next, ind))

\* The statements of one block: the lines from p on that are indented as ind.
ParseBlock(toks, p, ind) ==
    IF toks[p].type = "endmarker" \/ IndentOf(toks[p].prefix) # ind
    THEN [nodes |-> <<>>, next |-> p]
    ELSE BlockAfter(toks, ParseStmt(toks, p), ind)

SuiteOf(toks, p, b) == Parsed(Node("suite", <<LeafNode(toks, p)>> \o b.nodes), b.next)

\* suite: simple_stmt | NEWLINE INDENT stmt+ DEDENT.  p is the leaf after ':';
\* ind is the indentation of the line of the header.
ParseSuite(toks, p, ind) ==
    IF toks[p].type = "newline"
    THEN SuiteOf(toks, p,
                 IF IndentOf(toks[p + 1].prefix) > ind
                 THEN ParseBlock(toks, p + 1, IndentOf(toks[p + 1].prefix))
                 ELSE [nodes |-> <<>>, next |-> p + 1])
    ELSE SimpleStmt(toks, p)

WithSuite(type, head, decos, s) ==
    Parsed([Node(type, head \o <<s.node>>) EXCEPT !.decorators = decos], s.next)

\* A compound statement of the node type given whose header is the leaves from
\* p to the first ':'; head is the children built from the header before ':'.
ParseCompound(toks, p, type, head, decos) ==
    WithSuite(type, head \o <<LeafNode(toks, FindValue(toks, p, ":"))>>, decos,
              ParseSuite(toks, FindValue(toks, p, ":") + 1, IndentOf(toks[p].prefix)))

\* classdef: 'class' NAME ':' suite
\* funcdef: 'def' NAME parameters ':' suite
ClassOrFuncDef(toks, p, decos) ==
    IF toks[p].value = "class"
    THEN ParseCompound(toks, p, "classdef", LeafNodes(toks, p, p + 1), decos)
    ELSE ParseCompound(toks, p, "funcdef",
                       LeafNodes(toks, p, p + 1)
                         \o <<Node("parameters",
                                   LeafNodes(toks, p + 2, FindValue(toks, p, ":") - 1))>>,
                       decos)

\* A class or function definition; 'async' funcdef is a node of async_type
\* (async_funcdef under a decorated node, async_stmt otherwise), and the
\* decorators of its funcdef are those of the decorated node.
Definition(toks, p, decos, async_type) ==
    IF toks[p].value = "async"
    THEN Wrap(async_type, LeafNode(toks, p), ClassOrFuncDef(toks, p + 1, decos))
    ELSE ClassOrFuncDef(toks, p, decos)

\* with_stmt: 'with' with_item ':' suite, a with_item being test ['as' expr]
\* if_stmt: 'if' test ':' suite
FlowStmt(toks, p) ==
    IF toks[p].value = "if"
    THEN ParseCompound(toks, p, "if_stmt", LeafNodes(toks, p, p + 1), <<>>)
    ELSE ParseCompound(toks, p, "with_stmt",
                       <<LeafNode(toks, p),
                         IF FindValue(toks, p, ":") = p + 2 THEN LeafNode(toks, p + 1)
                         ELSE Node("with_item",
                                   LeafNodes(toks, p + 1, FindValue(toks, p, ":") - 1))>>,
                       <<>>)

\* decorated: decorators (classdef | funcdef | async_funcdef)
DecoratedBy(toks, d) ==
    Wrap("decorated",
         IF Len(d.nodes) = 1 THEN d.nodes[1] ELSE Node("decorators", d.nodes),
         Definition(toks, d.next, d.nodes, "async_funcdef"))

ParseStmt(toks, p) ==
    IF toks[p].value \in {"class", "def", "async"}
    THEN Definition(toks, p, <<>>, "async_stmt")
    ELSE IF toks[p].value = "@" THEN DecoratedBy(toks, Decorators(toks, p))
    ELSE IF toks[p].value \in {"with", "if"} THEN FlowStmt(toks, p)
    ELSE SimpleStmt(toks, p)

FileInput(toks, b) ==
    [leaves |-> toks,
     root |-> Node("file_input", b.nodes \o <<LeafNode(toks, Len(toks))>>)]

ParseLeaves(toks) == FileInput(toks, ParseBlock(toks, 1, 0))

\* parso.parse(source): the leaves and the file_input node over them.
parse(source) == ParseLeaves(Tokenize(source))

(***************************************************************************)
(* The parts of parso's tree API the script uses.                          *)
(***************************************************************************)
_FLOW_CONTAINERS ==
    {"if_stmt", "while_stmt", "for_stmt", "try_stmt", "with_stmt", "async_stmt", "suite"}
_FUNC_CONTAINERS ==
    {"suite", "simple_stmt", "decorated", "async_funcdef"} \cup _FLOW_CONTAINERS
_RETURN_STMT_CONTAINERS == {"suite", "simple_stmt"} \cup _FLOW_CONTAINERS
_IMPORTS == {"import_name", "import_from"}

\* Scope._search_in_scope: the nodes of the given types in the scope of the
\* module, in document order.
RECURSIVE _search_in_scope(_, _)
_search_in_scope(children, names) ==
    IF children = <<>> THEN <<>>
    ELSE LET element == Head(children)
         IN  (IF element.type \in names THEN <<element>> ELSE <<>>)
               \o (IF element.type \in _FUNC_CONTAINERS
                    THEN _search_in_scope(element.children, names) ELSE <<>>)
               \o _search_in_scope(Tail(children), names)

iter_classdefs(tree) == _search_in_scope(tree.root.children, {"classdef"})
iter_imports(tree) == _search_in_scope(tree.root.children, _IMPORTS)

Last(s) == s[Len(s)]

\* Import.is_star_import
is_star_import(import_node) == Last(import_node.children).value = "*"

\* ImportFrom.level (the number of leading dots); ImportName.level is 0.
RECURSIVE CountDots(_)
CountDots(children) ==
    IF children = <<>> \/ Head(children).value # "." THEN 0
    ELSE 1 + CountDots(Tail(children))

level(import_node) ==
    IF import_node.type = "import_name" THEN 0
    ELSE CountDots(Tail(import_node.children))

\* children[::2] of a dotted_name, import_as_names or import_as_name node, as
\* values; a lone name is its own list.
EveryOther(node) ==
    IF node.children = <<>> THEN <<node.value>>
    ELSE [k \in 1..((Len(node.children) + 1) \div 2) |-> node.children[2 * k - 1].value]

\* ImportFrom.get_from_names
get_from_names(import_node) ==
    LET n == import_node.children[2 + level(import_node)]
    IN  IF n.value = "import" THEN <<>> ELSE EveryOther(n)

\* The names an import_from imports (ImportFrom._as_name_tuples, first parts).
ImportedNames(import_node) ==
    LET last == Last(import_node.children)
    IN  IF last.type = "import_as_names" THEN EveryOther(last)
        ELSE IF last.type = "import_as_name" THEN <<last.children[1].value>>
        ELSE <<last.value>>

\* Import.get_paths: the paths an import statement imports, as name values.
get_paths(import_node) ==
    IF import_node.type = "import_name"
    THEN <<EveryOther(import_node.children[2])>>
    ELSE LET dotted == get_from_names(import_node)
         IN  IF is_star_import(import_node) THEN <<dotted>>
             ELSE [k \in 1..Len(ImportedNames(import_node)) |->
                      Append(dotted, ImportedNames(import_node)[k])]

\* DocstringMixin.get_doc_node of a class or function definition: the index of
\* the string leaf that is its docstring, 0 for None.
get_doc_node(def_node) ==
    LET body == Last(def_node.children)
        stmt == IF body.type = "suite"
                THEN (IF Len(body.children) >= 2 THEN body.children[2] ELSE body)
                ELSE body
        node == IF stmt.type = "simple_stmt" THEN stmt.children[1] ELSE stmt
    IN  IF node.type = "string" THEN node.leaf ELSE 0

\* NodeOrLeaf.get_first_leaf, as the index of the leaf.
RECURSIVE get_first_leaf(_)
get_first_leaf(node) ==
    IF node.children = <<>> THEN node.leaf ELSE get_first_leaf(Head(node.children))

(***************************************************************************)
(* The file system and the manifest.  A path is the sequence of its        *)
(* components below ROOT_PATH; fs maps the paths of the files that exist   *)
(* to their text.  cogs is the `cogs` section of info.yaml in its declared *)
(* order; class_docstring is <<>> when the key is absent.                  *)
(***************************************************************************)
ROOT_PATH == <<>>

\* str(ROOT_PATH): the folder above .tools, wherever the repository is.
RootText == "<ROOT_PATH>"

is_file(files, p) == p \in DOMAIN files

\* Path.with_suffix(".py") on a path whose last component has no suffix.
with_suffix(p) == [p EXCEPT ![Len(p)] = @ \o ".py"]

EntryPath(pkg_name) == ROOT_PATH \o <<pkg_name, "__init__.py">>

\* The messages of the RuntimeErrors the script raises.
InvalidPackageError == "Folder `{pkg_name}` isn't a valid package."
AbsoluteImportError == "Script expected relative import of cog's class."
DeepRelativeImportError == "Attempted relative import beyond top-level package."
\* str(path) of a path below ROOT_PATH.
RECURSIVE PathText(_)
PathText(p) == IF p = <<>> THEN RootText ELSE PathText(SubSeq(p, 1, Len(p) - 1)) \o "/" \o Last(p)

\* The grave accent that the message has on both sides of the path: the first
\* character of a string of two.
Backtick == SubSeq("`'", 1, 1)

\* The f-string of lines 290 and 291: the message holds the path.
UnresolvedPathError(p) ==
    "Path " \o Backtick \o PathText(p) \o Backtick
      \o " isn't a valid file. Finding cog's class failed."
GitGrepError == "git grep command failed"
DecoratorTypeError == "Unexpected type of decorator name."

(***************************************************************************)
(* update_class_docstrings                                                 *)
(***************************************************************************)
\* The class definitions of the tree that the loop accepts as class_node.
ClassNodes(tree, class_name) ==
    SelectSeq(iter_classdefs(tree), LAMBDA node : node.children[2].value = class_name)

\* The paths of an import node that end in class_name.
MatchingPaths(import_node, class_name) ==
    SelectSeq(get_paths(import_node), LAMBDA import_path : Last(import_path) = class_name)

\* The import nodes at which the for loop over tree.iter_imports() does not
\* `continue`.
MatchingImports(tree, class_name) ==
    SelectSeq(iter_imports(tree),
              LAMBDA import_node : /\ ~is_star_import(import_node)
                                   /\ MatchingPaths(import_node, class_name) # <<>>)

\* The file an import path names: ROOT_PATH / pkg_name / part ... with ".py".
ImportTarget(pkg_name, import_path) ==
    with_suffix(ROOT_PATH \o <<pkg_name>> \o SubSeq(import_path, 1, Len(import_path) - 1))

\* ImportOutcome without the test `import_node.level > 1`.
ImportOutcomeAnyLevel(files, pkg_name, import_node, import_path) ==
    IF level(import_node) = 0
    THEN [kind |-> "raise", error |-> AbsoluteImportError, path |-> <<>>]
    ELSE IF ~is_file(files, ImportTarget(pkg_name, import_path))
    THEN [kind |-> "raise", error |-> UnresolvedPathError(ImportTarget(pkg_name, import_path)),
          path |-> <<>>]
    ELSE [kind |-> "follow", error |-> "", path |-> ImportTarget(pkg_name, import_path)]

\* What the tests on the import node that names the class decide.
ImportOutcome(files, pkg_name, import_node, import_path) ==
    IF level(import_node) = 0
    THEN [kind |-> "raise", error |-> AbsoluteImportError, path |-> <<>>]
    ELSE IF level(import_node) > 1
    THEN [kind |-> "raise", error |-> DeepRelativeImportError, path |-> <<>>]
    ELSE IF ~is_file(files, ImportTarget(pkg_name, import_path))
    THEN [kind |-> "raise", error |-> UnresolvedPathError(ImportTarget(pkg_name, import_path)),
          path |-> <<>>]
    ELSE [kind |-> "follow", error |-> "", path |-> ImportTarget(pkg_name, import_path)]

\* One iteration of the `while True` loop on the file at path, whose tree
\* holds the class definitions and the imports given.
ResolveWith(files, pkg_name, class_name, path, classes, imports) ==
    IF classes # <<>>
    THEN [kind |-> "found", error |-> "", path |-> path]
    ELSE IF imports = <<>>
    THEN [kind |-> "again", error |-> "", path |-> path]
    ELSE ImportOutcome(files, pkg_name, Head(imports),
                       Head(MatchingPaths(Head(imports), class_name)))

ResolveIn(files, pkg_name, class_name, path, tree) ==
    ResolveWith(files, pkg_name, class_name, path,
                ClassNodes(tree, class_name), MatchingImports(tree, class_name))

ResolveStep(files, pkg_name, class_name, path) ==
    ResolveIn(files, pkg_name, class_name, path, parse(files[path]))

\* cog_info.get("class_docstring") or cog_info["short"], formatted.
NewDocstring(cog) ==
    format_map(IF cog.class_docstring # <<>> THEN cog.class_docstring ELSE cog.short,
               Replacements(cog.name))

\* The leaves of the tree after the docstring of class_node has been set:
\* doc_node.value, or else first_leaf.prefix, is assigned.
SetDocstring(leaves, doc_node, first_leaf, new_docstring) ==
    IF doc_node # 0
    THEN [leaves EXCEPT ![doc_node].value = TripleQuoted(new_docstring)]
    ELSE [leaves EXCEPT
            ![first_leaf].prefix = <<NL, IND, TripleQuoted(new_docstring), NL>>]

UpdateClass(tree, class_node, new_docstring) ==
    SetDocstring(tree.leaves, get_doc_node(class_node),
                 get_first_leaf(Last(class_node.children)), new_docstring)

UpdateTree(tree, cog) ==
    get_code(UpdateClass(tree, Head(ClassNodes(tree, cog.name)), NewDocstring(cog)))

\* new_code: the text of the file with the docstring of the class set.
NewCode(source, cog) == UpdateTree(parse(source), cog)

\* Variants of MustWrite that write every time, and never.
MustWriteAlways(source, new_code) == TRUE
MustWriteNever(source, new_code) == FALSE

\* if source != new_code
MustWrite(source, new_code) == source # new_code

\* A WriteTarget that is the entry file of the package.
WriteTargetEntry(pkg_name, path) == EntryPath(pkg_name)

\* The file the new code is written to.
WriteTarget(pkg_name, path) == path

(***************************************************************************)
(* check_command_docstrings and check_for_end_user_data_statement          *)
(***************************************************************************)
\* CONTAINERS without the definitions of functions and classes.
ContainersWithoutDefinitions == _FUNC_CONTAINERS \cup {"async_funcdef"}

CONTAINERS == _FUNC_CONTAINERS \cup {"async_funcdef", "funcdef", "classdef"}

SMALL_STMT_LIST ==
    {"expr_stmt", "del_stmt", "pass_stmt", "flow_stmt", "import_stmt",
     "global_stmt", "nonlocal_stmt", "assert_stmt"}

CONTAINERS_WITHOUT_LOCAL_SCOPE ==
    _RETURN_STMT_CONTAINERS \cup {"with_item"} \cup _IMPORTS \cup SMALL_STMT_LIST

\* A scan that goes into every element, in the containers or not.
RECURSIVE ScanEverywhere(_, _, _)
ScanEverywhere(children, name, containers) ==
    IF children = <<>> THEN <<>>
    ELSE (IF Head(children).type = name THEN <<Head(children)>> ELSE <<>>)
           \o ScanEverywhere(Head(children).children, name, containers)
           \o ScanEverywhere(Tail(children), name, containers)

RECURSIVE _scan_recursively(_, _, _)
_scan_recursively(children, name, containers) ==
    IF children = <<>> THEN <<>>
    ELSE LET element == Head(children)
         IN  (IF element.type = name THEN <<element>> ELSE <<>>)
               \o (IF element.type \in containers
                   THEN _scan_recursively(element.children, name, containers)
                   ELSE <<>>)
               \o _scan_recursively(Tail(children), name, containers)

PrefixPart(type, value, spacing) == [type |-> type, value |-> value, spacing |-> spacing]

\* split_prefix from the k-th atom on, the spaces read since the last part
\* being `spacing`: a part for every comment and every newline, which keeps
\* the spaces before it in its spacing, and at the end a part of type
\* "spacing" whose value is the spaces that follow the last of them.
RECURSIVE SplitPrefixFrom(_, _, _)
SplitPrefixFrom(prefix, k, spacing) ==
    IF k > Len(prefix) THEN <<PrefixPart("spacing", spacing, "")>>
    ELSE IF prefix[k] \in Spacing THEN SplitPrefixFrom(prefix, k + 1, spacing \o prefix[k])
    ELSE <<PrefixPart(IF prefix[k] \in CommentAtoms THEN "comment" ELSE "newline",
                      prefix[k], spacing)>>
           \o SplitPrefixFrom(prefix, k + 1, "")

\* PythonLeaf._split_prefix: the parts of a prefix.
_split_prefix(prefix) == SplitPrefixFrom(prefix, 1, "")

\* The loop over the parts sets `ignore`.
IgnoreAmong(prefix_parts) ==
    \E k \in 1..Len(prefix_parts) :
        /\ prefix_parts[k].type = "comment"
        /\ prefix_parts[k].value = IgnoreComment

\* ignore: the prefix of the first leaf of the first decorator holds the comment.
HasIgnoreComment(prefix) == IgnoreAmong(_split_prefix(prefix))

RECURSIVE JoinValues(_)
JoinValues(nodes) ==
    IF nodes = <<>> THEN "" ELSE Head(nodes).value \o JoinValues(Tail(nodes))

\* deco_name: the values of the children of a dotted name after the first,
\* joined; the value of a plain name; a node of any other type raises.
DecoName(deco) ==
    LET maybe_name == deco.children[2]
    IN  IF maybe_name.type = "dotted_name"
        THEN [kind |-> "name", value |-> JoinValues(Tail(maybe_name.children)), error |-> ""]
        ELSE IF maybe_name.type = "name"
        THEN [kind |-> "name", value |-> maybe_name.value, error |-> ""]
        ELSE [kind |-> "raise", value |-> "", error |-> DecoratorTypeError]

\* The names without the dots.
CommandDecoNamesBare == {"command", "group"}

CommandDecoNames == {".command", ".group"}

\* How the for loop over the decorators ends: "break" at the first decorator
\* whose name is one of the two, "raise" at the first whose name raises,
\* "else" when it runs out of decorators.
RECURSIVE DecoLoop(_)
DecoLoopAfter(deco_name, rest) ==
    IF deco_name.kind = "raise" THEN "raise"
    ELSE IF deco_name.value \in CommandDecoNames THEN "break"
    ELSE DecoLoop(rest)

DecoLoop(decorators) ==
    IF decorators = <<>> THEN "else"
    ELSE DecoLoopAfter(DecoName(Head(decorators)), Tail(decorators))

\* The for loop over the decorators ends in `break` (not in its else: continue).
IsCommand(decorators) == DecoLoop(decorators) = "break"

Finding(kind, pkg_name, file, name) ==
    [kind |-> kind, pkg |-> pkg_name, file |-> file, name |-> name]

\* What the body of the loop over the async_funcdef nodes prints for a
\* function, given its decorators, `ignore` and its doc node.
Report(pkg_name, file, name, decorators, ignore, doc_node) ==
    IF ~IsCommand(decorators) THEN <<>>
    ELSE IF doc_node = 0
    THEN (IF ~ignore THEN <<Finding("missing-docstring", pkg_name, file, name)>>
          ELSE <<>>)
    ELSE IF ignore
    THEN <<Finding("unused-ignore-marker", pkg_name, file, name)>>
    ELSE <<>>

\* What a part of check_command_docstrings has done: the findings it printed,
\* in order, and whether it ended in the RuntimeError of line 398.
Audit(found, raised) == [found |-> found, raised |-> raised]

\* One part and then, unless it raised, the next.
Then(first, rest) ==
    IF first.raised THEN first ELSE Audit(first.found \o rest.found, rest.raised)

FuncFindings(tree, pkg_name, file, funcdef) ==
    Audit(Report(pkg_name, file, funcdef.children[2].value, funcdef.decorators,
                 HasIgnoreComment(tree.leaves[funcdef.decorators[1].children[1].leaf].prefix),
                 get_doc_node(funcdef)),
          DecoLoop(funcdef.decorators) = "raise")

NodeFindings(tree, pkg_name, file, node) ==
    FuncFindings(tree, pkg_name, file, Last(node.children))

\* The nodes check_command_docstrings visits in one file.
VisitedNodes(tree) == _scan_recursively(tree.root.children, "async_funcdef", CONTAINERS)

RECURSIVE FindingsOfNodes(_, _, _, _)
FindingsOfNodes(tree, pkg_name, file, nodes) ==
    IF nodes = <<>> THEN Audit(<<>>, FALSE)
    ELSE Then(NodeFindings(tree, pkg_name, file, Head(nodes)),
              FindingsOfNodes(tree, pkg_name, file, Tail(nodes)))

TreeFindings(tree, pkg_name, file) ==
    FindingsOfNodes(tree, pkg_name, file, VisitedNodes(tree))

FileFindings(files, pkg_name, file) == TreeFindings(parse(files[file]), pkg_name, file)

\* pkg_folder.glob("**/*.py")
PackageFiles(files, pkg_name) ==
    {p \in DOMAIN files : Len(p) >= 2 /\ p[1] = pkg_name}

\* The orders in which glob may yield the files: it yields each once, in the
\* order of the directory listing.
GlobOrders(todo) ==
    {order \in [1..Cardinality(todo) -> todo] :
        \A a, b \in 1..Cardinality(todo) : a # b => order[a] # order[b]}

RECURSIVE SeqToBag(_)
SeqToBag(s) == IF s = <<>> THEN EmptyBag ELSE SeqToBag(Tail(s)) (+) SetToBag({Head(s)})

\* The loop over the files, in the order given.
RECURSIVE FilesFindings(_, _, _)
FilesFindings(files, pkg_name, order) ==
    IF order = <<>> THEN Audit(<<>>, FALSE)
    ELSE Then(FileFindings(files, pkg_name, Head(order)),
              FilesFindings(files, pkg_name, Tail(order)))

\* What check_command_docstrings does for one package whose files glob
\* yields in the order given.
PackageFindings(files, pkg_name, order) == FilesFindings(files, pkg_name, order)

\* The names found when the scan is given CONTAINERS.
ModuleNamesAllScopes(tree) == _scan_recursively(tree.root.children, "name", CONTAINERS)

\* The names check_for_end_user_data_statement looks at.
ModuleNames(tree) ==
    _scan_recursively(tree.root.children, "name", CONTAINERS_WITHOUT_LOCAL_SCOPE)

HasName(names, value) == \E k \in 1..Len(names) : names[k].value = value

\* The for loop over the names ends in `break`.
HasMarker(source) == HasName(ModuleNames(parse(source)), MarkerName)

MarkerFindings(files, pkg_name) ==
    IF HasMarker(files[EntryPath(pkg_name)]) THEN EmptyBag
    ELSE SetToBag({Finding("missing-marker-statement", pkg_name,
                           EntryPath(pkg_name), pkg_name)})

(***************************************************************************)
(* The run of main(), repeated.                                            *)
(***************************************************************************)
MaxIters == 4
MaxRuns == 2

VARIABLES
    fs,           \* the files below ROOT_PATH
    fs0,          \* fs as it was when the current run started
    cogs,         \* data["cogs"], in declared order
    run,          \* the number of the current run of the script
    pc,           \* where main() is: start, sync, cogdata, cmddoc, marker, done, aborted
    i,            \* the index in cogs of the package the current loop is at
    path,         \* update_class_docstrings: the file examined, <<>> before the loop
    visited,      \* the files examined before path for the current package
    iters,        \* the iterations of `while True` done for the current package
    error,        \* the message of the exception that ended the run, "" if none
    exit_code,    \* main()'s exit_code
    result,       \* <<r>> once main() has returned r, <<>> before
    synced,       \* a record per package update_class_docstrings has finished
    metaWritten,  \* the files main() has written in this run before the docstrings
    folders,      \* the folders below ROOT_PATH that exist
    findings,     \* the warnings the two checks have printed in this run
    docstrings_ret, \* what check_command_docstrings returns (its `ret`)
    marker_ret    \* what check_for_end_user_data_statement returns (its `ret`)

vars == <<fs, fs0, cogs, run, pc, i, path, visited, iters, error, exit_code, result,
          synced, metaWritten, findings, docstrings_ret, marker_ret, folders,
          version_info>>

cog_info == cogs[i]
pkg_name == cogs[i].pkg

\* The loop over cogs.items() moves on; `then` follows the loop.
NextPackage(then) ==
    IF i < Len(cogs) THEN i' = i + 1 /\ pc' = pc ELSE i' = 1 /\ pc' = then

Raise(message) == pc' = "aborted" /\ error' = message

\* str() of the FileNotFoundError that open() raises for the path.
MissingFileError(p) == "[Errno 2] No such file or directory: '" \o PathText(p) \o "'"

\* strictyaml's error for an info.yaml that does not fit SCHEMA; its text
\* depends on the document.
YAMLValidationError == "YAMLValidationError"

InfoYamlPath == ROOT_PATH \o <<"info.yaml">>
RootInfoPath == ROOT_PATH \o <<"info.json">>
InfoPath(pkg) == ROOT_PATH \o <<pkg, "info.json">>
AllRequirementsPath == ROOT_PATH \o <<".ci", "requirements", "all_cogs.txt">>
VersionRequirementsPath == ROOT_PATH \o <<".ci", "py38", "requirements", "all_cogs.txt">>
ReadmePath == ROOT_PATH \o <<"README.md">>

\* The files of .ci that main() writes, for the one Python version it knows.
CiPaths ==
    {AllRequirementsPath,
     VersionRequirementsPath,
     ROOT_PATH \o <<".ci", "py38", "black_file_list.txt">>,
     ROOT_PATH \o <<".ci", "py38", "compileall_file_list.txt">>}

\* info.json of the repository and of the first n packages of the manifest.
InfoPaths(manifest, n) == {RootInfoPath} \cup {InfoPath(manifest[k].pkg) : k \in 1..n}

\* The index of the first package of the manifest whose folder does not
\* exist, 0 when every folder exists.
RECURSIVE FirstMissingFolder(_, _, _)
FirstMissingFolder(manifest, dirs, k) ==
    IF k > Len(manifest) THEN 0
    ELSE IF ROOT_PATH \o <<manifest[k].pkg>> \notin dirs THEN k
    ELSE FirstMissingFolder(manifest, dirs, k + 1)

\* What main() finds outside the packages: info.yaml ("valid", "invalid" or
\* "missing"), the order of its keys, the folders of .ci ("all", "none" when
\* .ci/requirements is not there, "no_py38" when it is and .ci/py38/requirements
\* is not), and README.md ("ok", "nomatch" when it lacks the section of the
\* cogs, or "missing").
Environment(info_yaml, order_ok, ci, readme) ==
    [info_yaml |-> info_yaml, order_ok |-> order_ok, ci |-> ci, readme |-> readme]

Environments ==
    {Environment("valid", order_ok, ci, readme) :
        order_ok \in BOOLEAN, ci \in {"all", "none", "no_py38"},
        readme \in {"ok", "nomatch", "missing"}}
    \cup {Environment("missing", TRUE, "all", "ok"), Environment("invalid", TRUE, "all", "ok")}

\* main() from the info.json of the repository on, the first package without
\* a folder being the one at `missing` (0 for none).
MainWrite(env, missing) ==
    IF missing # 0
    THEN /\ Raise(MissingFileError(InfoPath(cogs[missing].pkg)))
         /\ metaWritten' = InfoPaths(cogs, missing - 1) /\ result' = result
    ELSE IF env.ci = "none"
    THEN /\ Raise(MissingFileError(AllRequirementsPath))
         /\ metaWritten' = InfoPaths(cogs, Len(cogs)) /\ result' = result
    ELSE IF env.ci = "no_py38"
    THEN /\ Raise(MissingFileError(VersionRequirementsPath))
         /\ metaWritten' = InfoPaths(cogs, Len(cogs)) \cup {AllRequirementsPath}
         /\ result' = result
    ELSE IF env.readme = "missing"
    THEN /\ Raise(MissingFileError(ReadmePath))
         /\ metaWritten' = InfoPaths(cogs, Len(cogs)) \cup CiPaths /\ result' = result
    ELSE IF env.readme = "nomatch"
    THEN /\ pc' = "done" /\ result' = <<1>> /\ error' = error
         /\ metaWritten' = InfoPaths(cogs, Len(cogs)) \cup CiPaths
    ELSE /\ pc' = "sync" /\ result' = result /\ error' = error
         /\ metaWritten' = InfoPaths(cogs, Len(cogs)) \cup CiPaths \cup {ReadmePath}

\* The names of the packages of the model as sorted() orders them.
SortedNames == <<"pa", "pb">>

\* check_order: original_cog_names = sorted_cog_names.
CogNamesSorted(manifest) ==
    \A a, b \in 1..Len(manifest) :
        a < b => \E m, n \in 1..Len(SortedNames) :
                    /\ m < n
                    /\ SortedNames[m] = manifest[a].pkg /\ SortedNames[n] = manifest[b].pkg

\* check_order: 0 when the keys of every section (env.order_ok) and the names
\* of the cogs are in order, 1 otherwise.
check_order(env, manifest) == IF env.order_ok /\ CogNamesSorted(manifest) THEN 0 ELSE 1

MainApply(env, missing) ==
    IF env.info_yaml = "missing"
    THEN /\ Raise(MissingFileError(InfoYamlPath))
         /\ UNCHANGED <<exit_code, result, metaWritten>>
    ELSE IF env.info_yaml = "invalid"
    THEN /\ Raise(YAMLValidationError)
         /\ UNCHANGED <<exit_code, result, metaWritten>>
    ELSE /\ exit_code' = check_order(env, cogs)
         /\ MainWrite(env, missing)

\* main() up to the call of update_class_docstrings: info.yaml, check_order,
\* the info.json files, the files of .ci and the README.
MainPrepare ==
    /\ pc = "start"
    /\ \E env \in Environments : MainApply(env, FirstMissingFolder(cogs, folders, 1))
    /\ UNCHANGED <<fs, fs0, cogs, run, i, path, visited, iters, synced,
                   findings, docstrings_ret, marker_ret, folders, version_info>>

\* update_class_docstrings: the head of the loop over the packages.
SyncEnter ==
    /\ pc = "sync" /\ path = <<>>
    /\ IF is_file(fs, EntryPath(pkg_name))
       THEN path' = EntryPath(pkg_name) /\ UNCHANGED <<pc, error>>
       ELSE Raise(InvalidPackageError) /\ path' = path
    /\ visited' = <<>> /\ iters' = 0
    /\ UNCHANGED <<fs, fs0, cogs, run, i, exit_code, result, synced, metaWritten,
                   findings, docstrings_ret, marker_ret, folders, version_info>>

\* The rest of the body of the loop over the packages, after `while True`.
SyncWrite(source, new_code) ==
    /\ fs' = IF MustWrite(source, new_code)
             THEN [fs EXCEPT ![WriteTarget(pkg_name, path)] = new_code]
             ELSE fs
    /\ synced' = Append(synced,
                        [run |-> run, pkg |-> pkg_name, path |-> path,
                         source |-> source, new_code |-> new_code,
                         wrote |-> MustWrite(source, new_code)])
    /\ path' = <<>> /\ NextPackage("cogdata")
    /\ UNCHANGED <<visited, iters, error>>

SyncApply(r) ==
    IF r.kind = "found" THEN SyncWrite(fs[path], NewCode(fs[path], cog_info))
    ELSE IF r.kind = "again"
    THEN /\ iters' = iters + 1
         /\ UNCHANGED <<fs, synced, path, visited, pc, i, error>>
    ELSE IF r.kind = "follow"
    THEN /\ path' = r.path /\ visited' = Append(visited, path)
         /\ iters' = iters + 1
         /\ UNCHANGED <<fs, synced, pc, i, error>>
    ELSE /\ Raise(r.error)
         /\ UNCHANGED <<fs, synced, path, visited, iters, i>>

\* update_class_docstrings: one iteration of `while True` and, when it breaks
\* out of the loop, the rest of the body of the loop over the packages.
SyncIterate ==
    /\ pc = "sync" /\ path # <<>> /\ iters < MaxIters
    /\ SyncApply(ResolveStep(fs, pkg_name, cog_info.name, path))
    /\ UNCHANGED <<fs0, cogs, run, exit_code, result, metaWritten, findings,
                   docstrings_ret, marker_ret, folders, version_info>>

\* check_cog_data_path_use: `git grep` for every package.
CheckCogDataPathUse ==
    /\ pc = "cogdata"
    /\ \E git_ok \in BOOLEAN :
          IF git_ok THEN pc' = "cmddoc" /\ error' = error ELSE Raise(GitGrepError)
    /\ UNCHANGED <<fs, fs0, cogs, run, i, path, visited, iters, exit_code, result,
                   synced, metaWritten, findings, docstrings_ret, marker_ret, folders,
                   version_info>>

ReportDocstrings(found) ==
    /\ findings' = findings (+) found
    /\ docstrings_ret' = IF found # EmptyBag THEN 1 ELSE docstrings_ret

\* The findings are printed as they are found; the RuntimeError of a decorator
\* name ends the run, and without it the loop over the packages moves on.
AuditApply(audit) ==
    /\ ReportDocstrings(SeqToBag(audit.found))
    /\ IF audit.raised THEN Raise(DecoratorTypeError) /\ i' = i
       ELSE NextPackage("marker") /\ error' = error

\* check_command_docstrings: the files of one package.
CheckCommandDocstrings ==
    /\ pc = "cmddoc"
    /\ \E order \in GlobOrders(PackageFiles(fs, pkg_name)) :
          AuditApply(PackageFindings(fs, pkg_name, order))
    /\ UNCHANGED <<fs, fs0, cogs, run, path, visited, iters, exit_code, result,
                   synced, metaWritten, marker_ret, folders, version_info>>

ReportMarker(found) ==
    /\ findings' = findings (+) found
    /\ marker_ret' = IF found # EmptyBag THEN 1 ELSE marker_ret

\* check_for_end_user_data_statement: one package; after the last one main()
\* returns exit_code.
CheckMarker ==
    /\ pc = "marker"
    /\ IF ~is_file(fs, EntryPath(pkg_name))
       THEN /\ Raise(InvalidPackageError)
            /\ UNCHANGED <<findings, marker_ret, i, result>>
       ELSE /\ ReportMarker(MarkerFindings(fs, pkg_name))
            /\ NextPackage("done")
            /\ result' = IF i < Len(cogs) THEN result ELSE <<exit_code>>
            /\ error' = error
    /\ UNCHANGED <<fs, fs0, cogs, run, path, visited, iters, exit_code, synced,
                   metaWritten, docstrings_ret, folders, version_info>>

\* The script is run again on the files the last run left.
RunAgain ==
    /\ pc \in {"done", "aborted"} /\ run < MaxRuns
    /\ run' = run + 1 /\ fs0' = fs
    /\ pc' = "start" /\ i' = 1 /\ path' = <<>> /\ visited' = <<>> /\ iters' = 0
    /\ error' = "" /\ exit_code' = 0 /\ result' = <<>>
    /\ metaWritten' = {} /\ findings' = EmptyBag
    /\ docstrings_ret' = 0 /\ marker_ret' = 0
    /\ UNCHANGED <<fs, cogs, synced, folders, version_info>>

Next ==
    \/ MainPrepare
    \/ SyncEnter
    \/ SyncIterate
    \/ CheckCogDataPathUse
    \/ CheckCommandDocstrings
    \/ CheckMarker
    \/ RunAgain

StartOfRun(files, dirs, manifest, version) ==
    /\ fs = files /\ fs0 = files /\ cogs = manifest
    /\ folders = dirs /\ version_info = version
    /\ run = 1 /\ pc = "start" /\ i = 1 /\ path = <<>> /\ visited = <<>> /\ iters = 0
    /\ error = "" /\ exit_code = 0 /\ result = <<>> /\ synced = <<>>
    /\ metaWritten = {} /\ findings = EmptyBag
    /\ docstrings_ret = 0 /\ marker_ret = 0

(***************************************************************************)
(* The source texts of the model.                                          *)
(***************************************************************************)
Indent(k) == [j \in 1..k |-> IND]
Assign(k) == Indent(k) \o <<"x", "=", "1", NL>>
ClassHeader(name) == <<"class", SP, name, ":">>

ClsNoDoc(name) == ClassHeader(name) \o <<NL>> \o Assign(1)
ClsOldDoc(name) ==
    ClassHeader(name) \o <<NL, IND, TripleQuoted("Old"), NL>> \o Assign(1)
ClsDoc(name, doc) == ClassHeader(name) \o <<NL, IND, TripleQuoted(doc), NL>>
ClsComment(name) == ClassHeader(name) \o <<SP, OtherComment, NL>> \o Assign(1)
ClsOneLine(name) == ClassHeader(name) \o <<SP, "pass", NL>>
ClsOneLineDoc(name) == ClassHeader(name) \o <<SP, "\"Old\"", NL>>
ClsMethodFirst(name) ==
    ClassHeader(name) \o <<NL, IND, "def", SP, "f", "(", ")", ":", SP, "pass", NL>>
DefHeader(k) == Indent(k) \o <<"def", SP, "f", "(", ")", ":", NL>>
ClsInDef(name) == DefHeader(0) \o <<IND>> \o ClsOneLine(name)
ClsInIfDoc(name) == <<"if", SP, "x", ":", NL, IND>> \o ClsOneLineDoc(name)

FromImport(dots, module, names) ==
    <<"from", SP>> \o dots \o module \o <<SP, "import", SP>> \o names \o <<NL>>
ImportStmt(name) == <<"import", SP, name, NL>>
Dot == <<".">>
ModB == <<"b">>
ModSubC == <<"sub", ".", "c">>

BPath(pkg) == ROOT_PATH \o <<pkg, "b.py">>
CPath(pkg) == ROOT_PATH \o <<pkg, "sub", "c.py">>

\* Texts that define the class at the scope of the module.
ClassTexts(name) ==
    {ClsNoDoc(name), ClsOldDoc(name), ClsDoc(name, "Tracks X."), ClsComment(name),
     ClsOneLine(name), ClsOneLineDoc(name), ClsMethodFirst(name), ClsInIfDoc(name),
     ClsOldDoc(name) \o FromImport(Dot \o Dot, <<"outer">>, <<name>>),
     <<OtherComment, NL>> \o ClsOldDoc("Other") \o ClsNoDoc(name)}

\* Entry files that send the resolution to b.py.
EntriesToB(name) ==
    {FromImport(Dot, ModB, <<name>>),
     FromImport(Dot, ModB, <<"Other", ",", name>>),
     FromImport(Dot, <<"x">>, <<"*">>) \o FromImport(Dot, ModB, <<name, SP, "as", SP, "Alias">>),
     FromImport(Dot, ModB, <<name>>) \o ImportStmt(name)}

\* Entry files with which the resolution ends, or stays, in the entry file.
EntriesAlone(name) ==
    ClassTexts(name) \cup
    {FromImport(Dot \o Dot, <<"outer">>, <<name>>),
     FromImport(<<>>, ModB, <<name>>),
     ImportStmt(name),
     ImportStmt(name) \o FromImport(Dot, ModB, <<name>>),
     FromImport(Dot, <<>>, <<name>>),
     FromImport(Dot, <<"missing">>, <<name>>),
     Assign(0),
     FromImport(Dot, ModB, <<"*">>),
     DefHeader(0) \o <<IND>> \o FromImport(Dot, ModB, <<name>>),
     ClsInDef(name),
     ClsInDef(name) \o FromImport(Dot \o Dot, <<"outer">>, <<name>>)}

\* Files b.py that end the resolution, or keep it in b.py.
BTexts(name) ==
    ClassTexts(name) \cup
    {Assign(0), FromImport(Dot, ModB, <<name>>), FromImport(<<>>, <<"c">>, <<name>>)}

CTexts(name) == {ClsNoDoc(name), ClsOldDoc(name), Assign(0)}

NoFiles == [p \in {} |-> <<>>]

\* The files of one package.
Layouts(pkg, name) ==
    {NoFiles}
    \cup {EntryPath(pkg) :> e : e \in EntriesAlone(name)}
    \cup {EntryPath(pkg) :> e @@ BPath(pkg) :> b :
            e \in {FromImport(Dot, ModB, <<name>>)}
                    \cup (EntriesAlone(name) \ ClassTexts(name)),
            b \in BTexts(name)}
    \cup {EntryPath(pkg) :> e @@ BPath(pkg) :> ClsOldDoc(name) : e \in EntriesToB(name)}
    \cup {EntryPath(pkg) :> FromImport(Dot, ModB, <<name>>)
            @@ BPath(pkg) :> FromImport(Dot, ModSubC, <<name>>)}
    \cup {EntryPath(pkg) :> FromImport(Dot, ModB, <<name>>)
            @@ BPath(pkg) :> FromImport(Dot, ModSubC, <<name>>)
            @@ CPath(pkg) :> c : c \in CTexts(name)}
    \cup {EntryPath(pkg) :> FromImport(Dot, ModSubC, <<name>>)
            @@ CPath(pkg) :> ClsNoDoc(name)}

\* A second package, after or before the first in the manifest.
OtherLayouts(pkg, name) ==
    {EntryPath(pkg) :> e :
        e \in {ClsNoDoc(name), ClsDoc(name, "Tracks X."),
               FromImport(Dot \o Dot, <<"outer">>, <<name>>), Assign(0)}}

Cog(pkg, name, short, class_docstring) ==
    [pkg |-> pkg, name |-> name, short |-> short, class_docstring |-> class_docstring]

Manifests ==
    {<<Cog("pa", "Foo", s, <<>>), Cog("pb", "Bar", <<"Tracks X.">>, <<>>)>> :
        s \in ShortTexts}
    \cup {<<Cog("pb", "Bar", <<"Tracks X.">>, <<>>),
            Cog("pa", "Foo", <<"Short">>, <<"Cog ", "{cog_name}", " of ", "{repo_name}">>)>>}

\* A function definition at indentation k, under the decorators given (each the
\* atoms after '@'), after the comment given (<<>> for none), with or without
\* a docstring.
RECURSIVE DecoratorLines(_, _)
DecoratorLines(k, decos) ==
    IF decos = <<>> THEN <<>>
    ELSE Indent(k) \o <<"@">> \o Head(decos) \o <<NL>> \o DecoratorLines(k, Tail(decos))

FuncText(k, is_async, decos, comment, has_doc, name) ==
    (IF comment = <<>> THEN <<>> ELSE Indent(k) \o comment \o <<NL>>)
      \o DecoratorLines(k, decos)
      \o Indent(k) \o (IF is_async THEN <<"async", SP>> ELSE <<>>)
      \o <<"def", SP, name, "(", ")", ":", NL>>
      \o (IF has_doc THEN Indent(k + 1) \o <<TripleQuoted("Old"), NL>> ELSE <<>>)
      \o Indent(k + 1) \o <<"pass", NL>>

DCommand == <<"commands", ".", "command", "(", ")">>
DGroup == <<"grp", ".", "group">>
DBareCommand == <<"command">>
DBareGroup == <<"group", "(", ")">>
DHelper == <<"commands", ".", "command_helper", "(", ")">>
DDeep == <<"a", ".", "b", ".", "command">>
DCheck == <<"check">>

DecoratorLists ==
    {<<>>, <<DCommand>>, <<DGroup>>, <<DBareCommand>>, <<DBareGroup>>, <<DHelper>>,
     <<DDeep>>, <<DCheck>>, <<DCheck, DCommand>>, <<DGroup, DCheck>>}

\* The lines above a function definition at indentation k: none, a class, or a
\* function with an `if` and a `with` in it.
Enclosing(k) ==
    IF k = 0 THEN <<>>
    ELSE IF k = 1 THEN ClassHeader("Cmds") \o <<NL>>
    ELSE DefHeader(0) \o <<IND, "if", SP, "x", ":", NL,
                           IND, IND, "with", SP, "a", ":", NL>>

Depths == {0, 1, 3}

FuncFiles ==
    {Enclosing(k) \o FuncText(k, is_async, decos, comment, has_doc, "cmd") :
        k \in Depths, is_async \in BOOLEAN, decos \in DecoratorLists,
        comment \in {<<>>, <<IgnoreComment>>}, has_doc \in BOOLEAN}
    \cup {DecoratorLines(0, <<DCommand>>)
            \o <<"async", SP, "def", SP, "outer", "(", ")", ":", NL>>
            \o FuncText(1, TRUE, <<DGroup>>, <<>>, FALSE, "cmd")}
    \cup {Enclosing(1) \o FuncText(1, TRUE, <<DCommand>>, <<OtherComment>>, has_doc, "cmd")
                       \o FuncText(1, TRUE, <<DGroup>>, comment, TRUE, "other") :
            has_doc \in BOOLEAN, comment \in {<<>>, <<IgnoreComment>>}}

MarkerStmt(k) == Indent(k) \o <<MarkerName, "=", "\"stmt\"", NL>>

\* Entry files that define the class, with the marker name at the scope of the
\* module (assigned, in a `with` block, in blocks two deep, imported alone),
\* in the body of a function or class only, as the name of a function, in the
\* argument of a call, in a list of imported names, or nowhere.
MarkerEntries(name) ==
    {m \o ClsDoc(name, "Tracks X.") :
        m \in {MarkerStmt(0),
               <<"with", SP, "a", SP, "as", SP, "b", ":", NL>> \o MarkerStmt(1),
               <<"if", SP, "x", ":", NL, IND, "with", SP, "a", ":", NL>> \o MarkerStmt(2),
               FromImport(Dot, <<"m">>, <<MarkerName>>),
               DefHeader(0) \o MarkerStmt(1),
               ClassHeader("K") \o <<NL>> \o MarkerStmt(1),
               <<"def", SP, MarkerName, "(", ")", ":", SP, "pass", NL>>,
               <<"print", "(", MarkerName, ")", NL>>,
               FromImport(Dot, <<"m">>, <<"a", ",", MarkerName>>),
               <<>>}}

PlainCommand == FuncText(0, TRUE, <<DCommand>>, <<>>, TRUE, "cmd")

AuditLayouts(pkg, name) ==
    {EntryPath(pkg) :> MarkerStmt(0) \o ClsDoc(name, "Tracks X.") @@ BPath(pkg) :> b :
        b \in FuncFiles}
    \cup {EntryPath(pkg) :> e @@ BPath(pkg) :> b :
            e \in MarkerEntries(name),
            b \in {PlainCommand,
                   Enclosing(3) \o FuncText(3, TRUE, <<DCommand>>, <<>>, FALSE, "cmd")}}
    \cup {EntryPath(pkg) :> MarkerStmt(0) \o ClsNoDoc(name) @@ BPath(pkg) :> PlainCommand
            @@ CPath(pkg) :> FuncText(0, TRUE, <<DCommand>>, comment, FALSE, "sub") :
            comment \in {<<>>, <<IgnoreComment>>}}

OtherAuditLayouts(pkg, name) ==
    {EntryPath(pkg) :> e :
        e \in {MarkerStmt(0) \o FuncText(0, TRUE, <<DGroup>>, <<>>, FALSE, "cmd")
                 \o ClsDoc(name, "Tracks X."),
               MarkerStmt(0) \o ClsDoc(name, "Tracks X."),
               DefHeader(0) \o MarkerStmt(1) \o ClsDoc(name, "Tracks X."),
               FromImport(Dot \o Dot, <<"outer">>, <<name>>)}}

\* The folders that hold the files.
FoldersOf(files) == {SubSeq(p, 1, n) : p \in DOMAIN files, n \in 1..2} \ DOMAIN files

\* The folders there may be: those of the files and those that hold no file
\* the script reads.
FolderSets(files, pkgs) == {FoldersOf(files) \cup empty : empty \in SUBSET pkgs}

Init ==
    \E la \in Layouts("pa", "Foo"), lb \in OtherLayouts("pb", "Bar"), m \in Manifests,
       version \in Versions :
        \E dirs \in FolderSets(la @@ lb, {ROOT_PATH \o <<"pa">>}) :
            StartOfRun(la @@ lb, dirs, m, version)

Spec == Init /\ [][Next]_vars

\* The same runs, over files that vary in what the two checks look at.
InitAudit ==
    \E la \in AuditLayouts("pa", "Foo"), lb \in OtherAuditLayouts("pb", "Bar"),
       version \in Versions :
        StartOfRun(la @@ lb, FoldersOf(la @@ lb),
                   <<Cog("pa", "Foo", <<"Tracks X.">>, <<>>),
                     Cog("pb", "Bar", <<"Tracks X.">>, <<>>)>>,
                   version)

SpecAudit == InitAudit /\ [][Next]_vars

(***************************************************************************)
(* Properties of update_class_docstrings, checked under Spec.              *)
(***************************************************************************)
\* Every node below the children given, at any depth, in document order.
RECURSIVE Descendants(_)
Descendants(children) ==
    IF children = <<>> THEN <<>>
    ELSE <<Head(children)>> \o Descendants(Head(children).children)
           \o Descendants(Tail(children))

\* The nodes below the children given that are in no function or class body.
RECURSIVE InModuleScope(_)
InModuleScope(children) ==
    IF children = <<>> THEN <<>>
    ELSE <<Head(children)>>
           \o (IF Head(children).type \in {"funcdef", "classdef"} THEN <<>>
               ELSE InModuleScope(Head(children).children))
           \o InModuleScope(Tail(children))

NamesClass(node, class_name) ==
    node.type = "classdef" /\ node.children[2].value = class_name

NamesImport(node, class_name) ==
    /\ node.type \in _IMPORTS
    /\ ~is_star_import(node)
    /\ \E k \in 1..Len(get_paths(node)) : Last(get_paths(node)[k]) = class_name

ClassAmong(nodes, class_name) == \E k \in 1..Len(nodes) : NamesClass(nodes[k], class_name)

ImportsAmong(nodes, class_name) ==
    SelectSeq(nodes, LAMBDA node : NamesImport(node, class_name))

AllNodes(source) == Descendants(parse(source).root.children)
ScopeNodes(source) == InModuleScope(parse(source).root.children)

CogOf(pkg) == cogs[CHOOSE j \in DOMAIN cogs : cogs[j].pkg = pkg]
ExpectedLiteral(pkg) == TripleQuoted(NewDocstring(CogOf(pkg)))
Range(s) == {s[k] : k \in DOMAIN s}

\* The error the specification names for a file with neither the class nor an
\* import of it.
MissingClassDefinitionError == "MissingClassDefinitionError"

NeitherAmong(nodes, class_name) ==
    ~ClassAmong(nodes, class_name) /\ ImportsAmong(nodes, class_name) = <<>>

\* C1: when the file under examination holds neither a class definition named
\* className nor a non-star import naming className, the run fails with
\* MissingClassDefinitionError.
C1_MissingClassRaises ==
    [][(pc = "sync" /\ path # <<>> /\ NeitherAmong(AllNodes(fs[path]), cog_info.name))
         => (pc' = "aborted" /\ error' = MissingClassDefinitionError)]_vars

\* The packages of the manifest from the one the loop is at.
PackagesFrom(first) == {cogs[j].pkg : j \in first..Len(cogs)}

\* C2 as stated: when a run aborts because an import of the class has more
\* than one leading dot, no file has been written by the run.
C2_NothingWrittenBeforeAbort ==
    (pc = "aborted" /\ error = DeepRelativeImportError) => fs = fs0

\* C2, amended: when a run aborts because an import of the class has more than
\* one leading dot, no file of the failing package or of a package after it in
\* the manifest has been written, and the file of every package before it holds
\* the code the run made for it.
C2_AbortLeavesLaterPackages ==
    (pc = "aborted" /\ error = DeepRelativeImportError) =>
        /\ \A p \in DOMAIN fs : p[1] \in PackagesFrom(i) => fs[p] = fs0[p]
        /\ \A k \in DOMAIN synced :
              synced[k].run = run =>
                  /\ synced[k].pkg \notin PackagesFrom(i)
                  /\ fs[synced[k].path] = synced[k].new_code

C2_Witness ==
    /\ pc = "aborted" /\ error = DeepRelativeImportError /\ i > 1
    /\ \E k \in DOMAIN synced : synced[k].run = run /\ synced[k].wrote
    /\ fs # fs0

LeafValue(leaves, d) == IF d = 0 THEN "" ELSE leaves[d].value

DocValueOfTree(tree, class_name) ==
    LeafValue(tree.leaves, get_doc_node(Head(ClassNodes(tree, class_name))))

\* The docstring literal of the class in the source, "" when it has none.
DocValue(source, class_name) == DocValueOfTree(parse(source), class_name)

SyncedOnce(k) ==
    /\ synced[k].wrote <=> synced[k].new_code # synced[k].source
    /\ DocValue(synced[k].source, CogOf(synced[k].pkg).name) # ExpectedLiteral(synced[k].pkg)
          => synced[k].wrote
    /\ (\E j \in 1..(k - 1) : synced[j].pkg = synced[k].pkg) => ~synced[k].wrote

\* C7: a file is written only when the code made for it differs from the text
\* read; a file whose class docstring differs from the expected one is
\* rewritten, and a run on the files an earlier run has brought up to date
\* writes nothing.
C7_Idempotent == \A k \in DOMAIN synced : SyncedOnce(k)

C7_Witness ==
    \E k \in DOMAIN synced, m \in DOMAIN synced :
        /\ synced[k].run = 1 /\ synced[k].wrote
        /\ synced[m].run = 2 /\ synced[m].pkg = synced[k].pkg /\ ~synced[m].wrote
        /\ synced[m].source = synced[k].new_code

Changed == {p \in DOMAIN fs : fs'[p] # fs[p]}

\* C8: the only file written for a package is the file that defines the class,
\* reached by following the imports; no file examined on the way is written,
\* and a package has at most one file written.
C8_OnlyDefiningFileWritten ==
    [][Changed # {} =>
          /\ pc = "sync" /\ Changed = {path}
          /\ ClassAmong(ScopeNodes(fs[path]), cog_info.name)
          /\ path \notin Range(visited)
          /\ path' = <<>>
          /\ \A k \in DOMAIN synced : ~(synced[k].run = run /\ synced[k].pkg = pkg_name)]_vars

C8_Witness ==
    \E k \in DOMAIN synced :
        /\ synced[k].wrote
        /\ synced[k].path = CPath(synced[k].pkg)
        /\ fs[synced[k].path] = synced[k].new_code
        /\ fs[EntryPath(synced[k].pkg)] = fs0[EntryPath(synced[k].pkg)]

\* The span is the literal, with nothing but spaces and line breaks beside it.
IsDocSpan(span, literal) ==
    \E k \in 1..Len(span) :
        /\ span[k] = literal
        /\ \A j \in (1..Len(span)) \ {k} : span[j] \in Spacing \cup {NL}

\* new is old with one docstring literal replaced by the literal given, or
\* with a span put in that holds the literal, spaces and line breaks only:
\* every atom of old is in new, in its place.
FrameKept(old, new, literal) ==
    \E a \in 0..Len(old), m \in 0..1 :
        /\ a + m <= Len(old) /\ Len(new) + m >= Len(old)
        /\ SubSeq(new, 1, a) = SubSeq(old, 1, a)
        /\ SubSeq(new, Len(new) + a + m + 1 - Len(old), Len(new))
             = SubSeq(old, a + m + 1, Len(old))
        /\ IsDocSpan(SubSeq(new, a + 1, Len(new) + a + m - Len(old)), literal)
        /\ m = 1 => TokenType(old[a + 1]) = "string"

\* C9: in a file the run rewrites, every token and every run of comments and
\* white space outside the docstring that was set is as it was in the text read.
C9_FramePreserved ==
    \A k \in DOMAIN synced :
        synced[k].wrote =>
            FrameKept(synced[k].source, synced[k].new_code, ExpectedLiteral(synced[k].pkg))

\* M.py below the folder of the package, for the module M an import names.
ModuleFile(pkg, import_node) == with_suffix(<<pkg>> \o get_from_names(import_node))

ImportDecides(import_node) ==
    IF level(import_node) = 0
    THEN pc' = "aborted" /\ error' = AbsoluteImportError
    ELSE IF level(import_node) > 1
    THEN pc' = "aborted" /\ error' = DeepRelativeImportError
    ELSE IF ModuleFile(pkg_name, import_node) \notin DOMAIN fs
    THEN pc' = "aborted"
         /\ error' = UnresolvedPathError(ModuleFile(pkg_name, import_node))
    ELSE pc' = "sync" /\ path' = ModuleFile(pkg_name, import_node) /\ fs' = fs

\* The step on a file that has the class (or not) and the imports given.
ClassWins(has_class, imports) ==
    IF has_class THEN pc' # "aborted" /\ path' = <<>> /\ Len(synced') = Len(synced) + 1
    ELSE imports # <<>> => ImportDecides(Head(imports))

ClassWinsAmong(nodes, class_name) ==
    ClassWins(ClassAmong(nodes, class_name), ImportsAmong(nodes, class_name))

\* C10 as stated: on a file that has no class definition named className and
\* has a non-star import naming it, the leading dots of the import decide
\* (none: AbsoluteImportError, more than one: DeepRelativeImportError, one:
\* UnresolvedPathError unless M.py is a file of the package, which is examined
\* next); a class definition in the file wins over an import of the name.
C10_ImportLevelDecides ==
    [][(pc = "sync" /\ path # <<>>) => ClassWinsAmong(AllNodes(fs[path]), cog_info.name)]_vars

\* C10, amended: the same, of the class definitions and the imports that are
\* in no function or class body, the first such import of the file deciding.
C10_ModuleScopeDecides ==
    [][(pc = "sync" /\ path # <<>>) => ClassWinsAmong(ScopeNodes(fs[path]), cog_info.name)]_vars

C10_Witness ==
    /\ pc = "aborted" /\ error = DeepRelativeImportError /\ path # <<>>
    /\ ClassAmong(AllNodes(fs[path]), cogs[i].name)

(***************************************************************************)
(* Properties of check_command_docstrings and of the result of main(),     *)
(* checked under SpecAudit.                                                *)
(***************************************************************************)
\* The names after the dots of the trailers given.
AttributeNames(trailers) ==
    LET dotted == SelectSeq(trailers, LAMBDA t : t.children[1].value = ".")
    IN  [k \in 1..Len(dotted) |-> dotted[k].children[2].value]

\* The names of the dotted path of a decorator, however the grammar groups
\* them; a bare name is one segment.
Segments(deco) ==
    IF deco.children[2].type = "atom_expr"
    THEN <<deco.children[2].children[1].value>>
           \o AttributeNames(Tail(deco.children[2].children))
    ELSE EveryOther(deco.children[2])

\* The decorator is '@' and a name, with no dot and no call.
IsBareName(deco) == Last(deco.children).leaf = deco.children[1].leaf + 2

RECURSIVE Concat(_)
Concat(strs) == IF strs = <<>> THEN "" ELSE Head(strs) \o Concat(Tail(strs))

\* The match key as the specification has it: the segments after the first,
\* joined with nothing between them.
MatchKeyOf(segments) ==
    IF Len(segments) = 1 THEN segments[1] ELSE Concat(Tail(segments))

\* The match key with its dots: what follows the first segment.
DottedKeyOf(segments) ==
    IF Len(segments) = 1 THEN segments[1]
    ELSE Concat([k \in 1..(Len(segments) - 1) |-> "." \o segments[k + 1]])

CommandLike(decorators) ==
    \E k \in 1..Len(decorators) : MatchKeyOf(Segments(decorators[k])) \in {"command", "group"}

DottedCommandLike(decorators) ==
    \E k \in 1..Len(decorators) :
        DottedKeyOf(Segments(decorators[k])) \in {".command", ".group"}

\* The ignore comment is in what precedes the first token of the decorators.
Marked(tree, funcdef) ==
    /\ funcdef.decorators # <<>>
    /\ IgnoreComment \in Range(tree.leaves[get_first_leaf(funcdef.decorators[1])].prefix)

Documented(funcdef) == get_doc_node(funcdef) # 0

Missing(file, funcdef) ==
    Finding("missing-docstring", file[1], file, funcdef.children[2].value)
Unused(file, funcdef) ==
    Finding("unused-ignore-marker", file[1], file, funcdef.children[2].value)

Reported(finding) == CopiesIn(finding, findings)

AllFuncDefs(tree) ==
    SelectSeq(Descendants(tree.root.children), LAMBDA node : node.type = "funcdef")

\* The function definitions the tree has below an async_funcdef node.
FuncDefsOf(nodes) == [k \in 1..Len(nodes) |-> Last(nodes[k].children)]

DecoratedAsyncDefs(tree) ==
    FuncDefsOf(SelectSeq(Descendants(tree.root.children),
                         LAMBDA node : node.type = "async_funcdef"))

\* The check of the docstrings has been through every package.
Audited == pc = "marker"

\* The check of the docstrings has ended the run at a decorator.
AuditAborted == pc = "aborted" /\ error = DecoratorTypeError

DocstringKinds == {"missing-docstring", "unused-ignore-marker"}

Clean(pkg) ==
    \A f \in BagToSet(findings) : ~(f.pkg = pkg /\ f.kind \in DocstringKinds)

CoveredAsCommandLike(file, tree, funcs) ==
    \A k \in 1..Len(funcs) :
        CommandLike(funcs[k].decorators) =>
            /\ Clean(file[1]) => Documented(funcs[k]) \/ Marked(tree, funcs[k])
            /\ ~Documented(funcs[k]) /\ ~Marked(tree, funcs[k])
                  => Reported(Missing(file, funcs[k])) >= 1

AllCovered(file, tree) == CoveredAsCommandLike(file, tree, AllFuncDefs(tree))

\* C3 as stated: after the audit, in a package with no finding every
\* command-like function definition, of any kind and at any depth, has a
\* docstring or the ignore marker; one that has neither has a missing-docstring
\* finding.
C3_EveryCommandCovered ==
    Audited => \A file \in DOMAIN fs : AllCovered(file, parse(fs[file]))

CoveredAsDotted(file, tree, funcs) ==
    \A k \in 1..Len(funcs) :
        DottedCommandLike(funcs[k].decorators) =>
            /\ Clean(file[1]) => Documented(funcs[k]) \/ Marked(tree, funcs[k])
            /\ ~Documented(funcs[k]) /\ ~Marked(tree, funcs[k])
                  => Reported(Missing(file, funcs[k])) >= 1

AsyncCovered(file, tree) == CoveredAsDotted(file, tree, DecoratedAsyncDefs(tree))

\* C3, amended: after an audit that has run to its end, in a package with no
\* finding every decorated `async def`, at any depth, that has a decorator
\* x.command or x.group has a docstring or the ignore marker; one that has
\* neither has a missing-docstring finding.  The audit ends before that, with
\* the RuntimeError of the decorator name, only under a grammar that takes
\* decorators for expressions.
C3_AsyncCommandsCovered ==
    /\ Audited => \A file \in DOMAIN fs : AsyncCovered(file, parse(fs[file]))
    /\ AuditAborted => ExpressionDecorators

ExemptAmong(tree, funcs) ==
    \E k \in 1..Len(funcs) :
        /\ DottedCommandLike(funcs[k].decorators)
        /\ ~Documented(funcs[k]) /\ Marked(tree, funcs[k])

HasExempt(tree) == ExemptAmong(tree, DecoratedAsyncDefs(tree))

\* A function in a class, or deeper, that is exempt, in a package with no finding.
C3_Witness ==
    /\ Audited /\ Clean("pa")
    /\ fs[BPath("pa")][1] \in {"class", "def"}
    /\ HasExempt(parse(fs[BPath("pa")]))
    /\ ~ExpressionDecorators

\* The findings the decision table gives a function definition.
TableRow(command_like, documented, marked, missing, unused) ==
    IF ~command_like THEN EmptyBag
    ELSE IF ~documented /\ ~marked THEN SetToBag({missing})
    ELSE IF documented /\ marked THEN SetToBag({unused})
    ELSE EmptyBag

RECURSIVE TableRows(_, _, _)
TableRows(file, tree, funcs) ==
    IF funcs = <<>> THEN EmptyBag
    ELSE TableRow(DottedCommandLike(Head(funcs).decorators), Documented(Head(funcs)),
                  Marked(tree, Head(funcs)), Missing(file, Head(funcs)),
                  Unused(file, Head(funcs)))
           (+) TableRows(file, tree, Tail(funcs))

TableOf(file, tree) == TableRows(file, tree, DecoratedAsyncDefs(tree))

\* The findings of the check of the docstrings that are about the file.
ReportedIn(file) ==
    LET about == {f \in BagToSet(findings) : f.file = file /\ f.kind \in DocstringKinds}
    IN  [f \in about |-> findings[f]]

\* The packages the check of the docstrings has dealt with: all of them at its
\* end, those up to the one it ended the run in otherwise.
AuditedPackages ==
    IF Audited THEN {cogs[k].pkg : k \in 1..Len(cogs)} ELSE {cogs[k].pkg : k \in 1..i}

\* C4: for a command-like function definition the check visits, no docstring
\* and no marker give one missing-docstring finding, no docstring and a marker
\* none, a docstring and a marker one unused-ignore-marker finding, a docstring
\* and no marker none; no other function definition has a finding.
C4_DecisionTable ==
    Audited \/ AuditAborted =>
        \A file \in DOMAIN fs :
            file[1] \in AuditedPackages => ReportedIn(file) = TableOf(file, parse(fs[file]))

\* A function definition shows how it was classified when it has neither a
\* docstring nor the marker, or both.
ClassifiedAs(command_like, file, tree, funcdef) ==
    /\ ~Documented(funcdef) /\ ~Marked(tree, funcdef)
          => (Reported(Missing(file, funcdef)) >= 1 <=> command_like)
    /\ Documented(funcdef) /\ Marked(tree, funcdef)
          => (Reported(Unused(file, funcdef)) >= 1 <=> command_like)

ClassifiedByName(file, tree, funcs) ==
    \A k \in 1..Len(funcs) :
        ClassifiedAs(CommandLike(funcs[k].decorators), file, tree, funcs[k])

ClassifiedByNameIn(file, tree) == ClassifiedByName(file, tree, DecoratedAsyncDefs(tree))

\* C5 as stated: the check takes a function definition for command-like if and
\* only if a decorator of it has the key `command` or `group`, the key being a
\* bare name itself, and the segments after the first of a dotted path joined
\* with nothing between them.
C5_KeyWithoutDots ==
    Audited => \A file \in DOMAIN fs : ClassifiedByNameIn(file, parse(fs[file]))

\* The key of the decorator, when it has one, is the name or what follows the
\* first segment; it has none when the grammar takes it for an expression and
\* it is not a bare name.
KeyIs(deco, deco_name) ==
    /\ deco_name.kind = "name" => deco_name.value = DottedKeyOf(Segments(deco))
    /\ deco_name.kind = "raise" <=> ExpressionDecorators /\ ~IsBareName(deco)

KeysAmong(funcs) ==
    \A k \in 1..Len(funcs) : \A d \in 1..Len(funcs[k].decorators) :
        KeyIs(funcs[k].decorators[d], DecoName(funcs[k].decorators[d]))

KeysIn(tree) == KeysAmong(DecoratedAsyncDefs(tree))

ClassifiedByDottedName(file, tree, funcs) ==
    \A k \in 1..Len(funcs) :
        ClassifiedAs(DottedCommandLike(funcs[k].decorators), file, tree, funcs[k])

\* A decorated `async def` among the functions has a decorator without a key.
KeylessAmong(funcs) ==
    \E k \in 1..Len(funcs) : \E d \in 1..Len(funcs[k].decorators) :
        ~IsBareName(funcs[k].decorators[d])

HasKeyless(tree) == KeylessAmong(DecoratedAsyncDefs(tree))

ClassifiedIn(file, tree) == ClassifiedByDottedName(file, tree, DecoratedAsyncDefs(tree))

\* C5, amended: under the grammar of Python up to 3.8 the key of a name is the
\* name and the key of a dotted path is what follows its first segment, dots
\* included; under the grammar of Python 3.9 and later only a bare name has a
\* key, and the check ends the run with the RuntimeError of the decorator name
\* only in a package that has a decorated `async def` with another decorator.
\* In a check that runs to its end a function definition is taken for
\* command-like if and only if a decorator of it has the key `.command` or
\* `.group`.
C5_KeyWithDots ==
    /\ Audited \/ AuditAborted => \A file \in DOMAIN fs : KeysIn(parse(fs[file]))
    /\ Audited => \A file \in DOMAIN fs : ClassifiedIn(file, parse(fs[file]))
    /\ AuditAborted =>
          /\ ExpressionDecorators
          /\ \E file \in PackageFiles(fs, cogs[i].pkg) : HasKeyless(parse(fs[file]))

BareAmong(tree, funcs) ==
    \E k \in 1..Len(funcs) :
        /\ CommandLike(funcs[k].decorators) /\ ~DottedCommandLike(funcs[k].decorators)
        /\ ~Documented(funcs[k]) /\ ~Marked(tree, funcs[k])

HasBare(tree) == BareAmong(tree, DecoratedAsyncDefs(tree))

\* An `async def` under a bare @command or @group, with no docstring, and no finding.
C5_Witness ==
    /\ Audited /\ Clean("pa")
    /\ HasBare(parse(fs[BPath("pa")]))

\* C6: a run that has passed the check of the order and has been through both
\* checks returns 0 if and only if no finding was reported.
C6_PassIffNoFinding ==
    [][(pc = "marker" /\ pc' = "done" /\ exit_code = 0)
          => (result' = <<0>> <=> findings' = EmptyBag)]_vars

(***************************************************************************)
(* Properties of check_for_end_user_data_statement and of                  *)
(* _scan_recursively, checked under SpecAudit.                             *)
(***************************************************************************)
\* The positions of the nodes below the children given: the position of a
\* node is the sequence of the indexes that lead to it.
RECURSIVE PositionsBelow(_)
PositionsBelow(children) ==
    UNION {{<<k>>} \cup {<<k>> \o q : q \in PositionsBelow(children[k].children)} :
             k \in 1..Len(children)}

RECURSIVE NodeAt(_, _)
NodeAt(children, position) ==
    IF Len(position) = 1 THEN children[position[1]]
    ELSE NodeAt(children[position[1]].children, Tail(position))

\* Every ancestor, below the root, of the node at the position is of the kinds.
Within(children, position, kinds) ==
    \A n \in 1..(Len(position) - 1) :
        NodeAt(children, SubSeq(position, 1, n)).type \in kinds

\* The order of the document: a node before what it holds and before what
\* follows it.
RECURSIVE Precedes(_, _)
Precedes(p, q) ==
    IF p = <<>> THEN TRUE
    ELSE IF q = <<>> THEN FALSE
    ELSE IF Head(p) # Head(q) THEN Head(p) < Head(q)
    ELSE Precedes(Tail(p), Tail(q))

RECURSIVE InOrder(_)
InOrderFrom(positions, first) == <<first>> \o InOrder(positions \ {first})

InOrder(positions) ==
    IF positions = {} THEN <<>>
    ELSE InOrderFrom(positions,
                     CHOOSE p \in positions : \A q \in positions : Precedes(p, q))

NodesAt(children, positions) ==
    [k \in 1..Len(positions) |-> NodeAt(children, positions[k])]

\* The nodes of the kind all of whose ancestors below the root are of the
\* kinds given, each once, in the order of the document.
NodesWithin(children, kind, kinds) ==
    NodesAt(children,
            InOrder({p \in PositionsBelow(children) :
                        NodeAt(children, p).type = kind /\ Within(children, p, kinds)}))

\* The nodes below the children given that are in no body of a function or
\* class: of a definition, what stands before its body.
RECURSIVE OutsideBodies(_)
OutsideBodies(children) ==
    IF children = <<>> THEN <<>>
    ELSE <<Head(children)>>
           \o OutsideBodies(IF Head(children).type \in {"funcdef", "classdef"}
                            THEN SubSeq(Head(children).children, 1,
                                        Len(Head(children).children) - 1)
                            ELSE Head(children).children)
           \o OutsideBodies(Tail(children))

IsMarkerName(node) == node.type = "name" /\ node.value = MarkerName

MarkerAmong(nodes) == \E k \in 1..Len(nodes) : IsMarkerName(nodes[k])

MarkerFinding(pkg) == Finding("missing-marker-statement", pkg, EntryPath(pkg), pkg)

EntryNodes(pkg) == parse(fs[EntryPath(pkg)]).root.children

\* C11 as stated: a package has no missing-marker finding if and only if its
\* entry file holds a name with the marker's value that is reached from the
\* root of the module without going into the body of a function or class, and
\* has one such finding otherwise.
C11_MarkerOutsideBodies ==
    [][(pc = "marker" /\ pc' # "aborted")
          => CopiesIn(MarkerFinding(pkg_name), findings')
               = (IF MarkerAmong(OutsideBodies(EntryNodes(pkg_name))) THEN 0 ELSE 1)]_vars

\* The kinds of statement that hold other statements or names and open no scope.
StatementKinds ==
    {"suite", "simple_stmt", "if_stmt", "while_stmt", "for_stmt", "try_stmt", "with_stmt",
     "async_stmt", "with_item", "import_name", "import_from", "expr_stmt", "del_stmt",
     "pass_stmt", "flow_stmt", "import_stmt", "global_stmt", "nonlocal_stmt", "assert_stmt"}

MarkerInStatements(children) ==
    \E p \in PositionsBelow(children) :
        IsMarkerName(NodeAt(children, p)) /\ Within(children, p, StatementKinds)

\* C11, amended: a package has no missing-marker finding if and only if its
\* entry file holds a name with the marker's value that stands directly in a
\* statement that opens no scope (an assignment, a `with` item, an import of
\* one name, the head of an if, while, for, try or with statement), itself in
\* such statements only up to the root of the module; it has one such finding
\* otherwise.
C11_MarkerInStatements ==
    [][(pc = "marker" /\ pc' # "aborted")
          => CopiesIn(MarkerFinding(pkg_name), findings')
               = (IF MarkerInStatements(EntryNodes(pkg_name)) THEN 0 ELSE 1)]_vars

\* The marker in a `with` block of the module, and no finding for the package.
C11_Witness ==
    /\ pc = "marker" /\ i = 2
    /\ fs[EntryPath("pa")][1] = "with"
    /\ CopiesIn(MarkerFinding("pa"), findings) = 0

ScanIs(children, kind, kinds) ==
    _scan_recursively(children, kind, kinds) = NodesWithin(children, kind, kinds)

\* C12: a scan yields, in the order of the document and each once, the nodes
\* of the kind looked for all of whose ancestors below the root are of the
\* kinds of the set given: of the files of a package the async_funcdef nodes
\* within CONTAINERS, of its entry file the names within
\* CONTAINERS_WITHOUT_LOCAL_SCOPE.
C12_ScanWithinBoundary ==
    /\ pc = "cmddoc" =>
          \A file \in PackageFiles(fs, pkg_name) :
              ScanIs(parse(fs[file]).root.children, "async_funcdef", CONTAINERS)
    /\ pc = "marker" =>
          ScanIs(EntryNodes(pkg_name), "name", CONTAINERS_WITHOUT_LOCAL_SCOPE)

\* A function three levels down in the body of a function is found, the marker
\* in a `with` block of the module is found, and no name of a body is.
C12_Witness ==
    /\ pc = "cmddoc" /\ i = 1
    /\ fs[BPath("pa")][1] = "def"
    /\ Len(VisitedNodes(parse(fs[BPath("pa")]))) = 1
    /\ fs[EntryPath("pa")][1] = "with"
    /\ MarkerAmong(ModuleNames(parse(fs[EntryPath("pa")])))
    /\ fs[EntryPath("pb")][1] = "def"
    /\ MarkerAmong(AllNodes(fs[EntryPath("pb")]))
    /\ ~MarkerAmong(ModuleNames(parse(fs[EntryPath("pb")])))

====
